---- MODULE Spec2Model ----
(***************************************************************************)
(* Model of core/snailchain/chain_makers.go: the snail-chain generator     *)
(* (BlockGen, GenerateChain, makeHeader) and the fruit / block assembler   *)
(* (makeSnailBlockFruit with its makeHead and makeFruit closures), and the *)
(* terminal prompt that follows them in the file (CommandlineUI).          *)
(*                                                                         *)
(* A *big.Int field is modelled as a set: {} is the nil pointer and {v}    *)
(* points at the value v.  A *SnailBlock is a record; the nil block is     *)
(* NilBlock.  A hash is modelled as the content it is computed from, so    *)
(* two hashes are equal exactly when the hashed headers are.               *)
(***************************************************************************)
EXTENDS Integers, Sequences, FiniteSets, TLC

VARIABLES
    args,        \* GenerateChain's arguments: parent, n, gen == nil, engine == nil
    pc,          \* position of the GenerateChain run
    i,           \* loop counter of the for loop, line 145
    parent,      \* the loop's parent variable, lines 146-148
    blocks,      \* blocks := make(types.SnailBlocks, n), line 122
    b,           \* the BlockGen of the block being generated, line 129
    calls,       \* BlockGen calls the hook has made so far in this run
    panicMsg,    \* message of the panic that ended the run, "" if none
    sealErr,     \* errors FinalizeSnail returned (the code drops them, line 139)
    prevResult,  \* what the hook's last PrevBlock call returned
    hookLog,     \* what the hook has done: SetCoinbase on this BlockGen, OffsetTime in this run
    fchain,      \* the SnailBlockChain handed to makeSnailBlockFruit
    fcall,       \* makeSnailBlockFruit: the other arguments of the last call
    fpc,         \* makeSnailBlockFruit: "idle", "returned" or "panic"
    fresult,     \* makeSnailBlockFruit: the returned (block, error) pair
    mu,          \* CommandlineUI.mu: 0 when free, else the caller holding it
    upc,         \* CommandlineUI: where each caller's approval request stands
    uop,         \* CommandlineUI: the approval operation each caller has called
    utext,       \* CommandlineUI: the text readString returned to each caller
    ures,        \* CommandlineUI: the response each caller got
    exited       \* log.Crit has ended the process

genVars == <<args, pc, i, parent, blocks, b, calls, panicMsg, sealErr, prevResult, hookLog>>
fruitVars == <<fchain, fcall, fpc, fresult>>
uiVars == <<mu, upc, uop, utext, ures, exited>>
vars == <<args, pc, i, parent, blocks, b, calls, panicMsg, sealErr, prevResult,
          hookLog, fchain, fcall, fpc, fresult, mu, upc, uop, utext, ures, exited>>

----------------------------------------------------------------------------
(* Bounds of the model *)

MaxBlocks == 2          \* largest n handed to GenerateChain
MaxCalls == 3           \* BlockGen calls the hook makes in one run
MaxHeadNumber == 9      \* largest height of the chain head in makeSnailBlockFruit
MaxLastFast == 2        \* largest fastNumber of the head's last fruit
MaxStart == 4           \* largest makeStartFastNum
ExtraFruits == 1        \* makeFruitSize ranges up to MinimumFruits + ExtraFruits
MaxCallers == 2         \* goroutines calling the approval operations of one UI

----------------------------------------------------------------------------
(* big.Int pointers *)

NilInt == {}
Int1(v) == {v}
Val(p) == CHOOSE v \in p : TRUE

Max(x, y) == IF x >= y THEN x ELSE y

----------------------------------------------------------------------------
(* types.SnailHeader and types.SnailBlock *)

\* The zero value of types.SnailHeader: what a struct literal leaves unset.
ZeroHeader ==
    [ParentHash |-> <<>>, Coinbase |-> 0, Difficulty |-> NilInt, Number |-> NilInt,
     Time |-> NilInt, Extra |-> 0, UncleHash |-> 0, Publickey |-> 0, Fruit |-> FALSE,
     FastNumber |-> NilInt, PointerHash |-> <<>>, PointerNumber |-> NilInt]

NilBlock == [nil |-> TRUE]

\* types.NewSnailBlock(header, fruits, signs, uncles)
NewSnailBlock(header, fruits, signs, uncles) ==
    [nil |-> FALSE, header |-> header, fruits |-> fruits, signs |-> signs,
     uncles |-> uncles]

\* Block.Hash() / Header.Hash(): a digest of the header's content.
Hash(block) ==
    <<block.header.ParentHash, block.header.Coinbase, block.header.Difficulty,
      block.header.Number, block.header.Time, block.header.Extra,
      block.header.Fruit, block.header.FastNumber>>

----------------------------------------------------------------------------
(* consensus.Engine, as the interface is described *)

FixedBlockInterval == 10
MinimumDifficulty == 1

\* CalcSnailDifficulty(chain, time, ancestors): a function of the window's
\* difficulty and time and of the new block's time; it falls as the elapsed
\* time grows past the interval, rises as it shrinks below it, and never goes
\* below the protocol minimum.
CalcSnailDifficulty(time, window) ==
    LET p == window[1]
        elapsed == time - Val(p.Time)
        d == Val(p.Difficulty)
    IN  IF elapsed < FixedBlockInterval THEN d + 1
        ELSE IF elapsed = FixedBlockInterval THEN d
        ELSE Max(MinimumDifficulty, d - 1)

\* FinalizeSnail(chain, header, uncles, fruits, signs): the sealed block, or
\* no block and an error.
FinalizeSnail(header, uncles, fruits, signs, ok) ==
    IF ok THEN NewSnailBlock(header, fruits, signs, uncles) ELSE NilBlock

----------------------------------------------------------------------------
(* makeHeader, lines 153-174 *)

makeHeaderTime(par) ==
    IF par.header.Time = NilInt
    THEN 10
    ELSE Val(par.header.Time) + 10

makeHeader(par) ==
    LET time == makeHeaderTime(par)
    IN  [ZeroHeader EXCEPT
            !.ParentHash = Hash(par),
            !.Coinbase = par.header.Coinbase,
            !.Difficulty = Int1(CalcSnailDifficulty(time,
                <<[ZeroHeader EXCEPT
                     !.Number = par.header.Number,
                     !.Time = Int1(time - 10),
                     !.Difficulty = par.header.Difficulty,
                     !.UncleHash = par.header.UncleHash]>>)),
            !.Number = Int1(Val(par.header.Number) + 1),
            !.Time = Int1(time)]

----------------------------------------------------------------------------
(* Inputs of GenerateChain *)

Addresses == {0, 1, 2}          \* 0 is the zero address
OffsetSeconds == {-10, -5, 5}   \* arguments the hook passes to OffsetTime
PrevIndexes == {-2, -1, 0, 1}   \* arguments the hook passes to PrevBlock

SuppliedHeader(number, time, difficulty, coinbase) ==
    [ZeroHeader EXCEPT !.Number = Int1(number), !.Time = time,
                       !.Difficulty = Int1(difficulty), !.Coinbase = coinbase]

\* The parent blocks handed to GenerateChain; the nil block is one of them.
\* A block that exists has its number, time and difficulty set: the block
\* accessors copy them out of the header.
Parents ==
    {NilBlock} \cup
    {NewSnailBlock(SuppliedHeader(nu, Int1(t), d, c), <<>>, <<>>, <<>>) :
        nu \in {0, 4}, t \in {0, 100}, d \in {1, 5}, c \in {0, 2}}

NoGen == [none |-> TRUE]

\* No SetCoinbase on the current BlockGen, no OffsetTime in the run.
NoCalls == [coinbaseSet |-> FALSE, timeOffset |-> FALSE]

----------------------------------------------------------------------------
(* GenerateChain, lines 118-151 *)

InitGen ==
    /\ args \in [parent : Parents, n : 0..MaxBlocks, genNil : BOOLEAN,
                 engineNil : BOOLEAN]
    /\ pc = "loop"
    /\ i = 0
    /\ parent = args.parent
    /\ blocks = [k \in 1..args.n |-> NilBlock]
    /\ b = NoGen
    /\ calls = 0
    /\ panicMsg = ""
    /\ sealErr = <<>>
    /\ prevResult = NilBlock
    /\ hookLog = NoCalls

InitFruitIdle ==
    /\ fchain = [nil |-> TRUE]
    /\ fcall = [none |-> TRUE]
    /\ fpc = "idle"
    /\ fresult = [none |-> TRUE]

Callers == 1..MaxCallers

\* NewCommandlineUI, lines 329-331: nobody holds the mutex, nobody has called.
InitUIIdle ==
    /\ mu = 0
    /\ upc = [p \in Callers |-> "idle"]
    /\ uop = [p \in Callers |-> "none"]
    /\ utext = [p \in Callers |-> <<>>]
    /\ ures = [p \in Callers |-> "none"]
    /\ exited = FALSE

Init == InitGen /\ InitFruitIdle /\ InitUIIdle

Panic(msg) ==
    /\ pc' = "panic"
    /\ panicMsg' = msg

\* for i := 0; i < n; i++ has run out: return blocks (line 150)
Return ==
    /\ pc = "loop"
    /\ i >= args.n
    /\ pc' = "returned"
    /\ UNCHANGED <<args, i, parent, blocks, b, calls, panicMsg, sealErr, prevResult, hookLog>>
    /\ UNCHANGED <<fruitVars, uiVars>>

\* genblock, lines 126-130: a new BlockGen and its draft header.  makeHeader
\* dereferences parent (line 156) and calls the engine (line 165); either
\* being nil is a nil dereference.  The run then stands at line 133.
Draft ==
    /\ pc = "loop"
    /\ i < args.n
    /\ IF parent = NilBlock \/ args.engineNil
       THEN /\ Panic("nil pointer dereference")
            /\ UNCHANGED <<b, hookLog>>
       ELSE /\ b' = [i |-> i, parent |-> parent, header |-> makeHeader(parent),
                     uncles |-> <<>>, fruits |-> <<>>, signs |-> <<>>]
            /\ hookLog' = [hookLog EXCEPT !.coinbaseSet = FALSE]
            /\ pc' = "gen"
            /\ UNCHANGED panicMsg
    /\ UNCHANGED <<args, i, parent, blocks, calls, sealErr, prevResult>>
    /\ UNCHANGED <<fruitVars, uiVars>>

\* line 133: the hook runs only if gen != nil
InHook ==
    /\ pc = "gen"
    /\ ~args.genNil
    /\ calls < MaxCalls

\* BlockGen.SetCoinbase, lines 53-60
setCoinbaseHeader(gen, addr) == [gen.header EXCEPT !.Coinbase = addr]

\* a guard that tolerates one fruit
setCoinbaseRejected_late(gen) == Len(gen.fruits) > 1

\* line 54
setCoinbaseRejected(gen) == Len(gen.fruits) > 0

SetCoinbase(addr) ==
    /\ InHook
    /\ calls' = calls + 1
    /\ IF setCoinbaseRejected(b)
       THEN /\ Panic("coinbase must be set before adding fruits")
            /\ UNCHANGED <<b, hookLog>>
       ELSE /\ b' = [b EXCEPT !.header = setCoinbaseHeader(b, addr)]
            /\ hookLog' = [hookLog EXCEPT !.coinbaseSet = TRUE]
            /\ UNCHANGED <<pc, panicMsg>>
    /\ UNCHANGED <<args, i, parent, blocks, sealErr, prevResult>>
    /\ UNCHANGED <<fruitVars, uiVars>>

\* BlockGen.AddFruit, lines 62-64
AddFruit(fruit) ==
    /\ InHook
    /\ calls' = calls + 1
    /\ b' = [b EXCEPT !.fruits = Append(b.fruits, fruit)]
    /\ UNCHANGED <<args, pc, i, parent, blocks, panicMsg, sealErr, prevResult, hookLog>>
    /\ UNCHANGED <<fruitVars, uiVars>>

\* BlockGen.SetExtra, lines 67-69
SetExtra(data) ==
    /\ InHook
    /\ calls' = calls + 1
    /\ b' = [b EXCEPT !.header.Extra = data]
    /\ UNCHANGED <<args, pc, i, parent, blocks, panicMsg, sealErr, prevResult, hookLog>>
    /\ UNCHANGED <<fruitVars, uiVars>>

\* BlockGen.AddUncle, lines 77-79
AddUncle(h) ==
    /\ InHook
    /\ calls' = calls + 1
    /\ b' = [b EXCEPT !.uncles = Append(b.uncles, h)]
    /\ UNCHANGED <<args, pc, i, parent, blocks, panicMsg, sealErr, prevResult, hookLog>>
    /\ UNCHANGED <<fruitVars, uiVars>>

\* BlockGen.PrevBlock, lines 84-92.  b.chain is the blocks slice of the run;
\* an index below -1 is out of the slice's range.
prevBlockOf(gen, chain, index) ==
    IF index = -1 THEN gen.parent ELSE chain[index + 1]

PrevBlock(index) ==
    /\ InHook
    /\ calls' = calls + 1
    /\ IF index >= b.i
       THEN /\ Panic("block index out of range")
            /\ UNCHANGED prevResult
       ELSE IF index < -1
       THEN /\ Panic("index out of range")
            /\ UNCHANGED prevResult
       ELSE /\ prevResult' = prevBlockOf(b, blocks, index)
            /\ UNCHANGED <<pc, panicMsg>>
    /\ UNCHANGED <<args, i, parent, blocks, b, sealErr, hookLog>>
    /\ UNCHANGED <<fruitVars, uiVars>>

\* BlockGen.OffsetTime, lines 97-104.  The times of the model are small
\* non-negative numbers, on which Uint64() is the identity.
\* a comparison that lets a time equal to the parent's through
offsetTimeOk_strict(time, parentTime) == ~(time < parentTime)

offsetTimeOk(time, parentTime) == ~(time <= parentTime)

\* an OffsetTime that moves the time and keeps the drafted difficulty
offsetTimeDifficulty_kept(gen, time) == gen.header.Difficulty

offsetTimeDifficulty(gen, time) ==
    Int1(CalcSnailDifficulty(time, <<gen.parent.header>>))

OffsetTime(seconds) ==
    /\ InHook
    /\ calls' = calls + 1
    /\ LET time == Val(b.header.Time) + seconds
       IN  IF ~offsetTimeOk(time, Val(b.parent.header.Time))
           THEN /\ Panic("block time out of range")
                /\ b' = [b EXCEPT !.header.Time = Int1(time)]
           ELSE /\ b' = [b EXCEPT !.header.Time = Int1(time),
                                  !.header.Difficulty = offsetTimeDifficulty(b, time)]
                /\ UNCHANGED <<pc, panicMsg>>
    /\ hookLog' = [hookLog EXCEPT !.timeOffset = TRUE]
    /\ UNCHANGED <<args, i, parent, blocks, sealErr, prevResult>>
    /\ UNCHANGED <<fruitVars, uiVars>>

\* lines 133-135: gen(i, b) returns, or gen is nil and is not called
HookReturn ==
    /\ pc = "gen"
    /\ pc' = "seal"
    /\ UNCHANGED <<args, i, parent, blocks, b, calls, panicMsg, sealErr, prevResult, hookLog>>
    /\ UNCHANGED <<fruitVars, uiVars>>

\* a store that lands on the block before
sealSlot_before(idx) == IF idx > 0 THEN idx ELSE idx + 1

\* line 147: blocks[i], the slice counted from 1
sealSlot(idx) == idx + 1

\* lines 137-141 and 146-148: block, _ := FinalizeSnail(...); blocks[i] = block;
\* parent = block.  The engine is not nil here, Draft has called it.
Seal ==
    /\ pc = "seal"
    /\ \E ok \in BOOLEAN :
         LET block == FinalizeSnail(b.header, b.uncles, b.fruits, b.signs, ok)
         IN  /\ blocks' = [blocks EXCEPT ![sealSlot(i)] = block]
             /\ parent' = block
             /\ sealErr' = IF ok THEN sealErr ELSE Append(sealErr, i)
    /\ i' = i + 1
    /\ b' = NoGen
    /\ pc' = "loop"
    /\ UNCHANGED <<args, calls, panicMsg, prevResult, hookLog>>
    /\ UNCHANGED <<fruitVars, uiVars>>

Next ==
    \/ Return
    \/ Draft
    \/ \E addr \in Addresses : SetCoinbase(addr)
    \/ \E fruit \in {1} : AddFruit(fruit)
    \/ \E data \in {1} : SetExtra(data)
    \/ \E h \in {1} : AddUncle(h)
    \/ \E index \in PrevIndexes : PrevBlock(index)
    \/ \E seconds \in OffsetSeconds : OffsetTime(seconds)
    \/ HookReturn
    \/ Seal

Spec == Init /\ [][Next]_vars

----------------------------------------------------------------------------
(* Properties of GenerateChain *)

\* The block before position k of the returned sequence (k counts from 1).
Before(k) == IF k = 1 THEN args.parent ELSE blocks[k - 1]

Follows(blk, prev) ==
    /\ blk # NilBlock
    /\ prev # NilBlock
    /\ Val(blk.header.Number) = Val(prev.header.Number) + 1
    /\ Val(blk.header.Time) > Val(prev.header.Time)

\* C1: every sequence GenerateChain returns has, at every position,
\* block[i].number = block[i-1].number + 1 and block[i].time > block[i-1].time,
\* block[-1] being the supplied parent.
C1_MonotonicHeight ==
    pc = "returned" => \A k \in 1..args.n : Follows(blocks[k], Before(k))

\* The same ordering for the runs in which no seal has failed.
MonotonicWhenSealed ==
    (pc = "returned" /\ sealErr = <<>>) =>
        \A k \in 1..args.n : Follows(blocks[k], Before(k))

\* C2: an OffsetTime call that brings the draft header's time to or below the
\* parent's time ends the run with the panic "block time out of range";
\* nothing is returned afterwards and the slot of block i and every later
\* slot stay empty.
C2_OffsetAborts ==
    [][ /\ \A seconds \in OffsetSeconds :
             (/\ InHook
              /\ Val(b.header.Time) + seconds <= Val(b.parent.header.Time)
              /\ OffsetTime(seconds))
             => /\ pc' = "panic"
                /\ panicMsg' = "block time out of range"
                /\ blocks' = blocks
                /\ \A k \in (i + 1)..args.n : blocks'[k] = NilBlock
        /\ pc = "panic" => pc' = "panic" /\ blocks' = blocks ]_vars

C2_Witness ==
    /\ pc = "panic"
    /\ panicMsg = "block time out of range"
    /\ i = 1
    /\ blocks[1] # NilBlock

\* C3: when block i is about to be sealed, whatever calls the hook made, the
\* header's difficulty is the engine's result for the header's time over the
\* window holding the parent's header alone.
C3_DifficultyAtSeal ==
    pc = "seal" =>
        b.header.Difficulty =
            Int1(CalcSnailDifficulty(Val(b.header.Time), <<b.parent.header>>))

C3_Witness ==
    /\ pc = "seal"
    /\ calls >= 2
    /\ Val(b.header.Time) # Val(b.parent.header.Time) + 10
    /\ b.header.Difficulty # b.parent.header.Difficulty
    /\ b.header.Coinbase # b.parent.header.Coinbase

\* C4: a failure of FinalizeSnail is handed to the caller and ends the run:
\* no sequence is returned by a run in which sealing has failed.
C4_SealFailurePropagated ==
    pc = "returned" => sealErr = <<>>

\* C11: GenerateChain returns n blocks, the block sealed in iteration i at
\* position i; block[0].parentHash is the hash of the supplied parent and
\* block[i].parentHash the hash of block[i-1].
C11_ParentLinkage ==
    pc = "returned" =>
        /\ Len(blocks) = args.n
        /\ \A k \in 1..args.n :
             /\ blocks[k] # NilBlock
             /\ Before(k) # NilBlock
             /\ blocks[k].header.ParentHash = Hash(Before(k))

\* The same linkage for the runs in which no seal has failed.
LinkageWhenSealed ==
    (pc = "returned" /\ sealErr = <<>>) =>
        /\ Len(blocks) = args.n
        /\ \A k \in 1..args.n :
             /\ blocks[k] # NilBlock
             /\ Before(k) # NilBlock
             /\ blocks[k].header.ParentHash = Hash(Before(k))

\* The window makeHeader hands to the engine: one header carrying the
\* predecessor's number, time and difficulty.
PredecessorWindow(prev) ==
    <<[ZeroHeader EXCEPT !.Number = prev.header.Number, !.Time = prev.header.Time,
                         !.Difficulty = prev.header.Difficulty,
                         !.UncleHash = prev.header.UncleHash]>>

FixedSpacing(k) ==
    /\ blocks[k] # NilBlock
    /\ Before(k) # NilBlock
    /\ Val(blocks[k].header.Time) = Val(args.parent.header.Time) + 10 * k
    /\ blocks[k].header.Difficulty =
           Int1(CalcSnailDifficulty(Val(blocks[k].header.Time),
                                    PredecessorWindow(Before(k))))

\* C12: when no customization changes the timestamp, the blocks GenerateChain
\* produces over a parent of time T have the times T+10, ..., T+10n, each
\* difficulty computed over the window holding its immediate predecessor.
C12_FixedInterval ==
    (pc = "returned" /\ ~hookLog.timeOffset) => \A k \in 1..args.n : FixedSpacing(k)

\* The same spacing for the runs in which no seal has failed.
SpacingWhenSealed ==
    (pc = "returned" /\ ~hookLog.timeOffset /\ sealErr = <<>>)
    => \A k \in 1..args.n : FixedSpacing(k)

\* C13: for every block of the run, PrevBlock(-1) returns the parent block
\* that was given to GenerateChain.
C13_PrevBlockParent ==
    [][(InHook /\ PrevBlock(-1)) => prevResult' = args.parent]_vars

\* C14: SetCoinbase can be called once on a BlockGen; a second call on the
\* same BlockGen is rejected and leaves the coinbase as it was.
C14_CoinbaseOnce ==
    [][\A addr \in Addresses :
          (InHook /\ hookLog.coinbaseSet /\ SetCoinbase(addr))
          => (pc' = "panic" /\ b'.header.Coinbase = b.header.Coinbase)]_vars

\* C15: with a nil hook every generated block is empty and has the zero
\* address as its coinbase, whatever the coinbase of the supplied parent.
C15_NilHookEmpty ==
    args.genNil =>
        \A k \in 1..Len(blocks) :
            blocks[k] # NilBlock =>
                /\ blocks[k].fruits = <<>>
                /\ blocks[k].uncles = <<>>
                /\ blocks[k].header.Coinbase = 0

\* The nil hook does leave every generated block without fruits and uncles.
NilHookNoFruitsNoUncles ==
    args.genNil =>
        \A k \in 1..Len(blocks) :
            blocks[k] # NilBlock =>
                (blocks[k].fruits = <<>> /\ blocks[k].uncles = <<>>)

\* The states of a block of the run: Drafted while the run stands at the
\* hook, Customized once the hook is behind, Sealed once its slot is filled.
Drafted == pc = "gen"
Customized == pc = "seal"
Sealed(k) == blocks[k] # NilBlock

\* C17: a block is Drafted only when every block before it is Sealed, is
\* Customized only from Drafted (with a nil hook too), is Sealed only from
\* Customized, and a Sealed block is never changed.
C17_Lifecycle ==
    [][ /\ (Drafted' /\ ~Drafted) =>
              (pc = "loop" /\ b'.i = i /\ \A k \in 1..i : Sealed(k))
        /\ (Customized' /\ ~Customized) => (Drafted /\ b' = b)
        /\ \A k \in 1..args.n :
              blocks'[k] # blocks[k] =>
                  /\ Customized
                  /\ k = i + 1
                  /\ ~Sealed(k)
                  /\ blocks'[k].header = b.header ]_vars

C17_Witness ==
    /\ pc = "returned"
    /\ args.genNil
    /\ args.n = 2
    /\ Sealed(1)
    /\ Sealed(2)

\* C18: SetCoinbase on a BlockGen that already holds a fruit panics with the
\* misuse message and leaves the draft's coinbase alone; AddFruit is taken in
\* whatever state the BlockGen is, coinbase set or not.
C18_CoinbaseAfterFruit ==
    [][ /\ \A addr \in Addresses :
             (InHook /\ Len(b.fruits) > 0 /\ SetCoinbase(addr))
             => /\ pc' = "panic"
                /\ panicMsg' = "coinbase must be set before adding fruits"
                /\ b'.header.Coinbase = b.header.Coinbase
        /\ (InHook /\ AddFruit(1))
             => /\ pc' = "gen"
                /\ b'.fruits = Append(b.fruits, 1)
                /\ b'.header = b.header ]_vars

C18_Witness ==
    /\ pc = "panic"
    /\ panicMsg = "coinbase must be set before adding fruits"
    /\ hookLog.coinbaseSet
    /\ Len(b.fruits) = 1

----------------------------------------------------------------------------
(* SnailBlockChain, as makeSnailBlockFruit reads it *)

\* params.MinimumFruits; line 212 spells the value out.
MinimumFruits == 60

\* pointerHashFresh is declared elsewhere in the package; makeHead only
\* subtracts it, and nothing below depends on the value taken here.
pointerHashFresh == 7

NilChain == [nil |-> TRUE]

\* chain.CurrentBlock(): the last block of the canonical chain, nil if none
CurrentBlock(chain) ==
    IF Len(chain.canon) = 0 THEN NilBlock ELSE chain.canon[Len(chain.canon)]

\* chain.GetBlockByNumber(number): block number k is the k-th after genesis
GetBlockByNumber(chain, number) ==
    IF number + 1 \in 1..Len(chain.canon) THEN chain.canon[number + 1] ELSE NilBlock

\* A fruit as a stored head carries it: a block with a fruit header.
StoredFruit(fastNumber) ==
    NewSnailBlock([ZeroHeader EXCEPT !.Fruit = TRUE, !.FastNumber = Int1(fastNumber)],
                  <<>>, <<>>, <<>>)

\* The canonical chain up to height headNumber whose head holds headFruits.
ChainOf(headNumber, headFruits) ==
    [nil |-> FALSE,
     canon |-> [k \in 1..(headNumber + 1) |->
                  NewSnailBlock([ZeroHeader EXCEPT !.Number = Int1(k - 1),
                                                   !.Time = Int1(10 * (k - 1)),
                                                   !.Difficulty = Int1(1)],
                                IF k = headNumber + 1 THEN headFruits ELSE <<>>,
                                <<>>, <<>>)]]

HeadFruitSets ==
    {<<>>} \cup {<<StoredFruit(last)>> : last \in 0..MaxLastFast}
           \cup {<<StoredFruit(last - 1), StoredFruit(last)>> : last \in 1..MaxLastFast}

Chains ==
    {NilChain, [nil |-> FALSE, canon |-> <<>>]} \cup
    {ChainOf(hn, hf) : hn \in 0..MaxHeadNumber, hf \in HeadFruitSets}

FruitSizes == {-1, 0, 1} \cup ((MinimumFruits - 1)..(MinimumFruits + ExtraFruits))

----------------------------------------------------------------------------
(* makeSnailBlockFruit, lines 195-288 *)

\* makeHead, lines 220-244.  parent.Number() hands out a copy of the height,
\* so num.Add(num, 1) leaves the parent as it is.  tstamp is the clock's
\* reading, taken as one value for the whole call.
\* a makeHead that advances the height for block headers only
makeHeadNumber_blocksOnly(num, isFruit) == IF isFruit THEN num ELSE num + 1

makeHeadNumber(num, isFruit) == num + 1

makeHeadPointerNum(parentNumber) ==
    IF parentNumber - pointerHashFresh < 0 THEN 0 ELSE parentNumber - pointerHashFresh

makeHead(chain, pubkey, coinbaseAddr, fastNumber, isFruit, tstamp) ==
    LET par == CurrentBlock(chain)
        num == Val(par.header.Number)
        pointer == GetBlockByNumber(chain, makeHeadPointerNum(Val(par.header.Number)))
    IN  [ZeroHeader EXCEPT
            !.ParentHash = Hash(par),
            !.Publickey = pubkey,
            !.Number = Int1(makeHeadNumber(num, isFruit)),
            !.Time = Int1(tstamp),
            !.Coinbase = coinbaseAddr,
            !.Fruit = isFruit,
            !.FastNumber = Int1(fastNumber),
            !.PointerHash = Hash(pointer),
            !.PointerNumber = pointer.header.Number]

\* a Number() that hands out the head's own height: the Add of line 227
\* then raises the height of the chain's head
chainAfterMakeHead_aliased(chain) ==
    [chain EXCEPT !.canon[Len(chain.canon)].header.Number =
                      Int1(Val(chain.canon[Len(chain.canon)].header.Number) + 1)]

\* The chain after one makeHead: num.Add(num, common.Big1) (lines 222, 227)
\* works on the copy parent.Number() hands out, so the chain is as before.
chainAfterMakeHead(chain) == chain

\* a makeFruit that is one fast number ahead
makeFruit_ahead(chain, fastNumber, pubkey, coinbaseAddr, signs, tstamp) ==
    NewSnailBlock(makeHead(chain, pubkey, coinbaseAddr, fastNumber + 1, TRUE, tstamp),
                  <<>>, signs, <<>>)

\* makeFruit, lines 246-255
makeFruit(chain, fastNumber, pubkey, coinbaseAddr, signs, tstamp) ==
    NewSnailBlock(makeHead(chain, pubkey, coinbaseAddr, fastNumber, TRUE, tstamp),
                  <<>>, signs, <<>>)

\* the loop of lines 259-265: for i = makeStartFastNum; i < makeStartFastNum +
\* makeFruitSize; i++ { fruitsetCopy = append(fruitsetCopy, makeFruit(i)) }
\* It yields the fruits and the chain as the makeHead calls have left it.
RECURSIVE fruitLoop(_, _, _, _, _, _, _, _)
fruitLoop(chain, k, end, pubkey, coinbaseAddr, signs, tstamp, fruitsetCopy) ==
    IF k < end
    THEN fruitLoop(chainAfterMakeHead(chain), k + 1, end, pubkey, coinbaseAddr,
                   signs, tstamp,
                   Append(fruitsetCopy,
                          makeFruit(chain, k, pubkey, coinbaseAddr, signs, tstamp)))
    ELSE [fruits |-> fruitsetCopy, chain |-> chain]

\* a guard that has lost its size test
blockRequestRejected_noSize(makeFruitSize, lastFastNumber, makeStartFastNum) ==
    lastFastNumber >= makeStartFastNum

\* line 211: the block request's guard
blockRequestRejected(makeFruitSize, lastFastNumber, makeStartFastNum) ==
    makeFruitSize < MinimumFruits \/ lastFastNumber >= makeStartFastNum

\* a comparison that lets the head's own last fast number through
staleFastNumber_strict(makeFastNum, lastFastNumber) == makeFastNum < lastFastNumber

\* line 215: makeFastNum.Cmp(snailFruitsLastFastNumber) <= 0, makeFastNum being
\* the requested fast number
staleFastNumber(makeFastNum, lastFastNumber) == makeFastNum <= lastFastNumber

Returns(block, err, chain) ==
    /\ fpc' = "returned"
    /\ fresult' = [block |-> block, err |-> err]
    /\ fchain' = chain

Panics(msg, chain) ==
    /\ fpc' = "panic"
    /\ fresult' = [block |-> NilBlock, err |-> msg]
    /\ fchain' = chain

\* The fast numbers of the model are far below 2^63, where Int64() and the
\* int64 conversion are the identity.
MakeSnailBlockFruit(chain, makeStartFastNum, makeFruitSize, pubkey, coinbaseAddr, signs, isBlock, tstamp) ==
    /\ fpc = "idle"
    /\ chain = fchain
    /\ fcall' = [makeStartFastNum |-> makeStartFastNum,
                 makeFruitSize |-> makeFruitSize, pubkey |-> pubkey,
                 coinbaseAddr |-> coinbaseAddr, signs |-> signs,
                 isBlock |-> isBlock]
    /\ IF chain = NilChain
       THEN Returns(NilBlock, "chain is nil", chain)
       ELSE IF CurrentBlock(chain) = NilBlock
       THEN Panics("nil pointer dereference", chain)
       ELSE IF Len(CurrentBlock(chain).fruits) = 0
       THEN Panics("index out of range", chain)
       ELSE
         LET par == CurrentBlock(chain)
             snailFruitsLastFastNumber ==
                 Val(par.fruits[Len(par.fruits)].header.FastNumber)
         IN  IF isBlock /\ blockRequestRejected(makeFruitSize,
                                snailFruitsLastFastNumber, makeStartFastNum)
             THEN Returns(NilBlock, "fruitSet is nill or size less then 60", chain)
             ELSE IF staleFastNumber(makeStartFastNum, snailFruitsLastFastNumber)
             THEN Returns(NilBlock,
                     "fast number less then current block's fruitset fast number",
                     chain)
             ELSE IF isBlock
             THEN LET made == fruitLoop(chain, makeStartFastNum,
                                        makeStartFastNum + makeFruitSize, pubkey,
                                        coinbaseAddr, signs, tstamp, <<>>)
                      fruitsetCopy == made.fruits
                  IN  IF Len(fruitsetCopy) # makeFruitSize
                      THEN Returns(NilBlock,
                          "fruits make fail the length less then makeFruitSize",
                          made.chain)
                      ELSE Returns(
                          NewSnailBlock(
                              makeHead(made.chain, pubkey, coinbaseAddr,
                                       makeStartFastNum, FALSE, tstamp),
                              fruitsetCopy, signs, <<>>), "",
                          chainAfterMakeHead(made.chain))
             ELSE Returns(makeFruit(chain, makeStartFastNum, pubkey, coinbaseAddr,
                                    signs, tstamp), "", chainAfterMakeHead(chain))
    /\ UNCHANGED <<genVars, uiVars>>

InitGenIdle ==
    /\ args = [parent |-> NilBlock, n |-> 0, genNil |-> TRUE, engineNil |-> TRUE]
    /\ pc = "idle"
    /\ i = 0
    /\ parent = NilBlock
    /\ blocks = <<>>
    /\ b = NoGen
    /\ calls = 0
    /\ panicMsg = ""
    /\ sealErr = <<>>
    /\ prevResult = NilBlock
    /\ hookLog = NoCalls

InitFruit ==
    /\ InitGenIdle
    /\ InitUIIdle
    /\ fchain \in Chains
    /\ fcall = [none |-> TRUE]
    /\ fpc = "idle"
    /\ fresult = [none |-> TRUE]

NextFruit ==
    \E chain \in {fchain}, makeStartFastNum \in 0..MaxStart, makeFruitSize \in FruitSizes,
       isBlock \in BOOLEAN, tstamp \in {1000, 1001} :
        MakeSnailBlockFruit(chain, makeStartFastNum, makeFruitSize, 1, 2, <<1>>,
                            isBlock, tstamp)

SpecFruit == InitFruit /\ [][NextFruit]_vars

----------------------------------------------------------------------------
(* Properties of makeSnailBlockFruit *)

Called == fpc # "idle"

\* The chain has a current head and the head holds at least one fruit.
UsableHead ==
    /\ fchain # NilChain
    /\ CurrentBlock(fchain) # NilBlock
    /\ Len(CurrentBlock(fchain).fruits) > 0

HeadNumber == Val(CurrentBlock(fchain).header.Number)

LastFastNumber ==
    Val(CurrentBlock(fchain).fruits[Len(CurrentBlock(fchain).fruits)].header.FastNumber)

Succeeded == fpc = "returned" /\ fresult.err = ""

\* The headers a successful call has built: the fruits' and the block's.
BuiltHeaders ==
    IF ~Succeeded THEN {}
    ELSE {fresult.block.header} \cup
         {fresult.block.fruits[j].header : j \in 1..Len(fresult.block.fruits)}

\* C5: on a chain with a usable head, a block request with fewer than
\* MinimumFruits fruits returns the insufficient-fruits error and no block,
\* whatever the start fast number.
C5_MinimumFruits ==
    (Called /\ UsableHead /\ fcall.isBlock /\ fcall.makeFruitSize < MinimumFruits)
    => /\ fpc = "returned"
       /\ fresult.err = "fruitSet is nill or size less then 60"
       /\ fresult.block = NilBlock

C5_Witness ==
    /\ Called /\ UsableHead /\ fcall.isBlock
    /\ fcall.makeFruitSize = MinimumFruits - 1
    /\ fcall.makeStartFastNum > LastFastNumber
    /\ fresult.err = "fruitSet is nill or size less then 60"

C7_FruitContiguity ==
    (Succeeded /\ fcall.isBlock)
    => /\ Len(fresult.block.fruits) = fcall.makeFruitSize
       /\ \A j \in 0..(fcall.makeFruitSize - 1) :
            fresult.block.fruits[j + 1].header.FastNumber
                = Int1(fcall.makeStartFastNum + j)

C7_Witness ==
    /\ Succeeded /\ fcall.isBlock
    /\ fcall.makeFruitSize > MinimumFruits
    /\ fcall.makeStartFastNum > LastFastNumber + 1
    /\ Len(fresult.block.fruits) = fcall.makeFruitSize

PointerBound(header, parentNumber) ==
    /\ header.PointerNumber # NilInt
    /\ 0 <= Val(header.PointerNumber)
    /\ Val(header.PointerNumber) <= parentNumber
    /\ Val(header.PointerNumber) = Max(0, parentNumber - pointerHashFresh)

\* C8: every header the core builds, the draft headers of GenerateChain and
\* the fruit and block headers of makeSnailBlockFruit alike, has
\* 0 <= pointerNumber <= parent.number and
\* pointerNumber = max(0, parent.number - PointerFreshnessWindow).
C8_PointerBound ==
    /\ pc \in {"gen", "seal"} =>
           PointerBound(b.header, Val(b.parent.header.Number))
    /\ \A h \in BuiltHeaders : PointerBound(h, HeadNumber)

\* The part of C8 that is about makeHead.
MakeHeadPointerBound ==
    \A h \in BuiltHeaders : PointerBound(h, HeadNumber)

\* C9: with no current head, or a head without fruits, block assembly returns
\* the empty-chain error as a value and builds nothing; it fails in no other way.
C9_EmptyChainRejected ==
    (Called /\ ~UsableHead)
    => /\ fpc = "returned"
       /\ fresult.err # ""
       /\ fresult.block = NilBlock

HeadView(chain) ==
    IF chain = NilChain \/ CurrentBlock(chain) = NilBlock
    THEN <<"none">>
    ELSE <<CurrentBlock(chain).header.Number, Hash(CurrentBlock(chain)),
           CurrentBlock(chain).fruits>>

----------------------------------------------------------------------------
(* CommandlineUI, lines 324-465 *)

\* A line of input is the sequence of its characters, the newline included,
\* as ReadString('\n') returns it.
Lines ==
    {<<"\n">>, <<" ", "\n">>, <<"y", "\n">>, <<" ", "y", " ", "\n">>,
     <<"Y", "e", "s", "\n">>, <<"y", "e", "s", "\n">>, <<"N", "\n">>}

IsSpace(c) == c \in {" ", "\n", "\t", "\r"}

\* strings.TrimSpace: the text without its leading and trailing white space
RECURSIVE TrimLeft(_)
TrimLeft(text) ==
    IF text # <<>> /\ IsSpace(Head(text)) THEN TrimLeft(Tail(text)) ELSE text

RECURSIVE TrimRight(_)
TrimRight(text) ==
    IF text # <<>> /\ IsSpace(text[Len(text)])
    THEN TrimRight(SubSeq(text, 1, Len(text) - 1))
    ELSE text

TrimSpace(text) == TrimRight(TrimLeft(text))

\* confirm, lines 377-384: readString() == "y"
confirmAnswer(text) == text = <<"y">>

Operations == {"ApproveTx", "ApproveListing", "ApproveNewAccount"}

\* The response of an approval operation: lines 421-426, 443-447, 460-464.
\* ApproveListing approves by handing the accounts back, the others by a flag.
Response(op, approved) == [op |-> op, approved |-> approved]

\* ui.mu.Lock() goes through when nobody holds the mutex
lockFree(m) == m = 0

\* an Unlock that is missing on the denying return
muAfterReturn_approvedOnly(m, approved) == IF approved THEN 0 ELSE m

\* defer ui.mu.Unlock(), lines 392, 435, 454: the mutex after the return
muAfterReturn(m, approved) == 0

\* A goroutine calls one of the approval operations and reaches ui.mu.Lock().
Request(p, op) ==
    /\ ~exited
    /\ upc[p] \in {"idle", "done"}
    /\ upc' = [upc EXCEPT ![p] = "lock"]
    /\ uop' = [uop EXCEPT ![p] = op]
    /\ utext' = [utext EXCEPT ![p] = <<>>]
    /\ ures' = [ures EXCEPT ![p] = "none"]
    /\ UNCHANGED <<mu, exited>>
    /\ UNCHANGED <<genVars, fruitVars>>

\* Lock returns; the request is printed and confirm prints its prompt
\* (lines 391-420, 434-442, 453-459, 378); the caller now waits in readString.
Enter(p) ==
    /\ ~exited
    /\ upc[p] = "lock"
    /\ lockFree(mu)
    /\ mu' = p
    /\ upc' = [upc EXCEPT ![p] = "confirm"]
    /\ UNCHANGED <<uop, utext, ures, exited>>
    /\ UNCHANGED <<genVars, fruitVars>>

\* One round of readString's loop (lines 336-345) on a line the user has
\* entered: an empty text asks again, any other text ends confirm and the
\* operation returns, releasing the mutex.
ReadLine(p, line) ==
    /\ ~exited
    /\ upc[p] = "confirm"
    /\ LET text == TrimSpace(line)
       IN  IF text # <<>>
           THEN /\ utext' = [utext EXCEPT ![p] = text]
                /\ ures' = [ures EXCEPT ![p] = Response(uop[p], confirmAnswer(text))]
                /\ upc' = [upc EXCEPT ![p] = "done"]
                /\ mu' = muAfterReturn(mu, confirmAnswer(text))
           ELSE UNCHANGED <<utext, ures, upc, mu>>
    /\ UNCHANGED <<uop, exited>>
    /\ UNCHANGED <<genVars, fruitVars>>

\* ReadString fails (lines 339-341): log.Crit ends the process.
ReadFail(p) ==
    /\ ~exited
    /\ upc[p] = "confirm"
    /\ exited' = TRUE
    /\ UNCHANGED <<mu, upc, uop, utext, ures>>
    /\ UNCHANGED <<genVars, fruitVars>>

InitUI == InitGenIdle /\ InitFruitIdle /\ InitUIIdle

NextUI ==
    \/ \E p \in Callers, op \in Operations : Request(p, op)
    \/ \E p \in Callers : Enter(p)
    \/ \E p \in Callers, line \in Lines : ReadLine(p, line)
    \/ \E p \in Callers : ReadFail(p)

SpecUI == InitUI /\ [][NextUI]_vars

----------------------------------------------------------------------------
(* Properties of CommandlineUI *)

Yes == <<"Y", "e", "s">>

\* C19: confirm returns true exactly when the user enters 'Yes', so an
\* approval operation reports approval exactly when the answer is 'Yes'.
C19_ApprovedIffYes ==
    \A p \in Callers :
        upc[p] = "done" => (ures[p].approved <=> utext[p] = Yes)

\* What the code does: approval exactly when the answer is y.
ApprovedIffY ==
    \A p \in Callers :
        upc[p] = "done" => (ures[p].approved <=> utext[p] = <<"y">>)

\* An operation is between its first prompt output and its return.
Prompting(p) == upc[p] = "confirm"

\* C20: at most one approval operation is between its first prompt output and
\* its return, and the mutex is held only by such an operation: every return,
\* approving or denying, has released it.
C20_OneAtATime ==
    /\ \A p, q \in Callers : (Prompting(p) /\ Prompting(q)) => p = q
    /\ \A p \in Callers : Prompting(p) => mu = p
    /\ mu # 0 => Prompting(mu)

C20_Witness ==
    /\ upc[1] = "done"
    /\ ~ures[1].approved
    /\ Prompting(2)
    /\ mu = 2
    /\ uop[1] # uop[2]

====
